---- MODULE Spec2Model ----
(***************************************************************************)
(* A model of the writedown parser: the IndexedGeneratorBuffer             *)
(* (buffer.py), the AST tree primitives (ast.py) and the recursive-descent *)
(* Parser with its structural sub-parsers (parser.py).                     *)
(*                                                                         *)
(* Python's None is modelled by the integer None (-1) where a number is    *)
(* expected, by 0 where a node or session id is expected and by "" where   *)
(* a string is expected.  Python indices are 0-based: the record with      *)
(* Python index i of a stream s is s[i + 1].                               *)
(***************************************************************************)
EXTENDS Integers, Sequences, FiniteSets, TLC

\* ------------------------------------------------------------------ bounds

\* Number of characters of a text read by read_str or read_file.
MaxText == 3
\* Number of whitespace-separated tokens of the argument of @session.
MaxArgs == 3

\* Length of the underlying sequence wrapped by the stand-alone buffer.
MaxSeq == 3
\* Total number of lines over the files of one parsed input.
MaxLines == 4
\* Nesting depth of parse_path calls (an @include inside an included file).
MaxDepth == 3

None == 0 - 1

Min(a, b) == IF a < b THEN a ELSE b
Max(a, b) == IF a > b THEN a ELSE b

\* ------------------------------------------------- IndexedGeneratorBuffer
\* A buffer is [buffer, offset, consumed]; the records of the wrapped
\* generator are named by their 0-based position in the underlying sequence
\* of n records, so that buffer holds positions.

\* IndexedGeneratorBuffer.__init__
NewBuffer == [buffer |-> <<>>, offset |-> 0, consumed |-> 0]

\* Python's  lst[:k] = []  (k may be negative or exceed the length).
PyDelPrefix(lst, k) ==
  LET len == Len(lst)
      stop == IF k >= 0 THEN Min(k, len) ELSE Max(len + k, 0)
  IN SubSeq(lst, stop + 1, len)

\* A truncate that evicts nothing.
truncate_nothing(b, pos) == b

\* IndexedGeneratorBuffer.truncate
Truncate(b, pos) ==
  [b EXCEPT !.buffer = PyDelPrefix(b.buffer, pos - b.offset), !.offset = pos]

\* IndexedGeneratorBuffer.read over a generator of n records: the records read
\* before StopIteration stay in the buffer.  ok is FALSE on StopIteration.
Read(b, length, n) ==
  LET take == Max(0, Min(length, n - b.consumed))
  IN [buf |-> [b EXCEPT !.buffer = b.buffer \o [k \in 1..take |-> b.consumed + k - 1],
                        !.consumed = b.consumed + take],
      ok  |-> length <= n - b.consumed]

\* IndexedGeneratorBuffer.valid_index: [buf, ret]
ValidIndex(b, pos, n) ==
  IF pos < b.consumed THEN [buf |-> b, ret |-> TRUE]
  ELSE LET r == Read(b, pos + 1 - b.consumed, n) IN [buf |-> r.buf, ret |-> r.ok]

\* IndexedGeneratorBuffer.get: [buf, exc, rec]; exc is the exception raised
\* ("" when none is) and rec the record returned (its position in the
\* underlying sequence; None when an exception is raised).
Get(b, pos, n) ==
  LET r == IF pos >= b.consumed THEN Read(b, pos + 1 - b.consumed, n)
           ELSE [buf |-> b, ok |-> TRUE]
      target == pos - r.buf.offset
  IN IF ~r.ok THEN [buf |-> r.buf, exc |-> "StopIteration", rec |-> None]
     ELSE IF target < 0 \/ target >= Len(r.buf.buffer)
          THEN [buf |-> r.buf, exc |-> "IndexError", rec |-> None]
          ELSE [buf |-> r.buf, exc |-> "", rec |-> r.buf.buffer[target + 1]]

\* ------------------------------------------- the buffer used on its own
\* ibuf wraps a generator of ilen records; last is the last call made and
\* what it returned; truncs is the set of positions truncate was called with.

VARIABLES ibuf, ilen, last, truncs

\* The state of a parse:
\* files, root   the input: the lines of each file and the files the root
\*               path matches, in discovery order
\* nodes         every ASTNode created so far
\* sessions      every SessionAttribute created so far (its id is its index)
\* sequences     Parser.sequences, shared by every parser instance
\* warnings      the SequenceWarnings emitted so far
\* gens, bufs    per parse_path call: the records its generator yields
\*               (read_path) and its IndexedGeneratorBuffer
\* stack         the active Parser.parse calls, innermost last: node_holder,
\*               pos, end, the buffer (lines), what called it (ret: "top",
\*               "struct" or "include") and, for a structural sub-parser, the
\*               position its scan stopped at (resume)
\* status        "run", "done" or the exception raised out of the parse
\* result        the DocumentNode returned (0 before)
\* cur           history: the session of the last @session line dispatched,
\*               0 after an @endsession line or an end marker
\* dispatched    history: the lines the dispatch loops have handled

VARIABLES files, root, nodes, sessions, sequences, warnings, gens, bufs, stack,
          status, result, cur, dispatched

ParserVars == <<files, root, nodes, sessions, sequences, warnings, gens, bufs,
                stack, status, result, cur, dispatched>>

vars == <<ibuf, ilen, last, truncs, files, root, nodes, sessions, sequences,
          warnings, gens, bufs, stack, status, result, cur, dispatched>>

ParserUnchanged == UNCHANGED ParserVars

Indices == 0 .. (MaxSeq + 1)

BufInit ==
  /\ ilen \in 0..MaxSeq
  /\ ibuf = NewBuffer
  /\ last = [op |-> "init", arg |-> 0, exc |-> "", rec |-> None]
  /\ truncs = {}

BufRead ==
  \E length \in 1..2 :
    LET r == Read(ibuf, length, ilen) IN
    /\ ibuf' = r.buf
    /\ last' = [op |-> "read", arg |-> length,
                exc |-> IF r.ok THEN "" ELSE "StopIteration", rec |-> None]
    /\ UNCHANGED <<ilen, truncs>>
    /\ ParserUnchanged

BufValidIndex ==
  \E pos \in Indices :
    LET r == ValidIndex(ibuf, pos, ilen) IN
    /\ ibuf' = r.buf
    /\ last' = [op |-> IF r.ret THEN "valid_index_true" ELSE "valid_index_false",
                arg |-> pos, exc |-> "", rec |-> None]
    /\ UNCHANGED <<ilen, truncs>>
    /\ ParserUnchanged

BufGet ==
  \E pos \in Indices :
    LET r == Get(ibuf, pos, ilen) IN
    /\ ibuf' = r.buf
    /\ last' = [op |-> "get", arg |-> pos, exc |-> r.exc, rec |-> r.rec]
    /\ UNCHANGED <<ilen, truncs>>
    /\ ParserUnchanged

BufTruncate ==
  \E pos \in Indices :
    /\ ibuf' = Truncate(ibuf, pos)
    /\ last' = [op |-> "truncate", arg |-> pos, exc |-> "", rec |-> None]
    /\ truncs' = truncs \cup {pos}
    /\ UNCHANGED ilen
    /\ ParserUnchanged


\* ------------------------------------------------------------------ tokens
\* The Tokens enumeration.  A keyword is a string; Spell gives its characters,
\* so that str.startswith is a prefix test and not an equality test.  "@actor"
\* stands for an instruction the parser does not know whose keyword begins
\* with the characters of "@act", and "@scenery" for one whose keyword begins
\* with the characters of "@scene".

TokINSTRUCTION == "@"
TokEOF == "@EOF"
TokACT == "@act"
TokPART == "@part"
TokCHAPTER == "@chapter"
TokSCENE == "@scene"
TokSECTION == "@section"
TokSESSION == "@session"
TokEND_SESSION == "@endsession"
TokINCLUDE == "@include"
TokTITLE == "@title"
TokAUTHOR == "@author"
TokTODO == "@todo"
TokSTATUS == "@status"
TokCOMMENT_BLOCK_START == "@*"

Spell ==
  [kw \in {"", "@", "@EOF", "@act", "@part", "@chapter", "@scene", "@section",
           "@session", "@endsession", "@include", "@title", "@author", "@todo",
           "@actor", "@status", "@*", "@scenery", "@foo"} |->
     CASE kw = "" -> <<>>
       [] kw = "@" -> <<"@">>
       [] kw = "@EOF" -> <<"@", "E", "O", "F">>
       [] kw = "@act" -> <<"@", "a", "c", "t">>
       [] kw = "@part" -> <<"@", "p", "a", "r", "t">>
       [] kw = "@chapter" -> <<"@", "c", "h", "a", "p", "t", "e", "r">>
       [] kw = "@scene" -> <<"@", "s", "c", "e", "n", "e">>
       [] kw = "@section" -> <<"@", "s", "e", "c", "t", "i", "o", "n">>
       [] kw = "@session" -> <<"@", "s", "e", "s", "s", "i", "o", "n">>
       [] kw = "@endsession" -> <<"@", "e", "n", "d", "s", "e", "s", "s", "i", "o", "n">>
       [] kw = "@include" -> <<"@", "i", "n", "c", "l", "u", "d", "e">>
       [] kw = "@title" -> <<"@", "t", "i", "t", "l", "e">>
       [] kw = "@author" -> <<"@", "a", "u", "t", "h", "o", "r">>
       [] kw = "@todo" -> <<"@", "t", "o", "d", "o">>
       [] kw = "@actor" -> <<"@", "a", "c", "t", "o", "r">>
       [] kw = "@status" -> <<"@", "s", "t", "a", "t", "u", "s">>
       [] kw = "@*" -> <<"@", "*">>
       [] kw = "@foo" -> <<"@", "f", "o", "o">>
       [] kw = "@scenery" -> <<"@", "s", "c", "e", "n", "e", "r", "y">>]

\* The tokens Parser.parse has a case for (the others fall to  case _).
KnownTokens ==
  {"@EOF", "@act", "@author", "@chapter", "@character", "@comment", "@@", "@*",
   "@endsession", "@include", "@location", "@pagebreak", "@part", "@place",
   "@scene", "@section", "@session", "@status", "@tableofcontents", "@toc",
   "@tag", "@target", "@title", "@todo"}

StructuralTokens == {TokACT, TokPART, TokCHAPTER, TokSCENE, TokSECTION}

\* The leaf instructions built from the stripped argument alone.
LeafTokens == {TokTITLE, TokAUTHOR, TokTODO}

\* ------------------------------------------------------------------- lines
\* The content of a line is [kw, num, title, inc]: its leading keyword ("" for
\* a line of text), then the argument: an explicit number (None when absent),
\* the remaining text, and for @include the path, named by the file it
\* resolves to (0: a path that matches no file).

TextLine == [kw |-> "", num |-> None, title |-> "t", inc |-> 0]
Instr(kw) == [kw |-> kw, num |-> None, title |-> "", inc |-> 0]
InstrArg(kw, num, title) == [kw |-> kw, num |-> num, title |-> title, inc |-> 0]
IncludeLine(f) == [kw |-> TokINCLUDE, num |-> None, title |-> "", inc |-> f]

\* The texts that end with the close delimiter of a comment block, "*@".
ClosingTexts == {"c *@", "*@"}

\* A line that opens a comment block and does not close it, one that opens
\* and closes it, a line of text that closes one, and a line that closes one
\* and begins with an instruction keyword.
CommentOpen == [kw |-> TokCOMMENT_BLOCK_START, num |-> None, title |-> "c", inc |-> 0]
CommentInline == [kw |-> TokCOMMENT_BLOCK_START, num |-> None, title |-> "c *@", inc |-> 0]
TextClose == [kw |-> "", num |-> None, title |-> "c *@", inc |-> 0]
InstrClose(kw) == [kw |-> kw, num |-> None, title |-> "*@", inc |-> 0]

\* line.content.endswith(Tokens.COMMENT_BLOCK_END)
endswith_block_end(content) == content.title \in ClosingTexts

\* Parser.is_instruction: text.startswith(token.value)
is_instruction(content, token) ==
  LET t == Spell[token]
      c == Spell[content.kw]
  IN /\ Len(t) <= Len(c)
     /\ \A i \in 1..Len(t) : c[i] = t[i]

\* Parser.get_instruction: the leading token up to whitespace
get_instruction(content) == content.kw

\* The files of an input: file f holds the lines fs[f].
FileIds == {1, 2, 3}

\* The @include argument that stands for a glob matching files 2 and 3.
Glob23 == 23

\* The @include argument that stands for an existing directory in which
\* neither index.wd nor **/*.wd matches a file.
EmptyDir == 40

\* Parser.read_iter: the lines of file f numbered from 1, then the end marker.
read_iter(fs, f) ==
  [i \in 1..(Len(fs[f]) + 1) |->
     [source |-> f, lineno |-> i,
      content |-> IF i <= Len(fs[f]) THEN fs[f][i] ELSE Instr(TokEOF)]]

\* Parser.read_path: the records of the files a path matches, in order.
RECURSIVE read_path(_, _)
read_path(fs, paths) ==
  IF paths = <<>> THEN <<>>
  ELSE read_iter(fs, Head(paths)) \o read_path(fs, Tail(paths))

\* ---- the readers on texts: a text is a sequence of characters, each "a"
\* or the line terminator Tokens.NEWLINE

NEWLINE == "\n"

HasNewline(text) == \E i \in 1..Len(text) : text[i] = NEWLINE
FirstNewline(text) ==
  CHOOSE i \in 1..Len(text) : text[i] = NEWLINE /\ \A j \in 1..(i - 1) : text[j] # NEWLINE

\* str.split(Tokens.NEWLINE)
RECURSIVE split_newline(_)
split_newline(text) ==
  IF ~HasNewline(text) THEN <<text>>
  ELSE <<SubSeq(text, 1, FirstNewline(text) - 1)>>
       \o split_newline(SubSeq(text, FirstNewline(text) + 1, Len(text)))

\* Iterating over an open file: the lines with their terminators.
RECURSIVE file_lines(_)
file_lines(text) ==
  IF text = <<>> THEN <<>>
  ELSE IF ~HasNewline(text) THEN <<text>>
  ELSE <<SubSeq(text, 1, FirstNewline(text))>>
       \o file_lines(SubSeq(text, FirstNewline(text) + 1, Len(text)))

\* line.rstrip(Tokens.NEWLINE)
RECURSIVE rstrip_newline(_)
rstrip_newline(line) ==
  IF line # <<>> /\ line[Len(line)] = NEWLINE
  THEN rstrip_newline(SubSeq(line, 1, Len(line) - 1))
  ELSE line

\* Parser.read_iter over the lines an iterator yields
read_iter_lines(source, iter) ==
  [i \in 1..(Len(iter) + 1) |->
     [source |-> source, lineno |-> i,
      content |-> IF i <= Len(iter) THEN rstrip_newline(iter[i]) ELSE Spell[TokEOF]]]

\* Parser.read_str (the source 'string' is 0)
read_str(text) == read_iter_lines(0, split_newline(text))

\* Parser.read_file of file f
read_file(fs, f) == read_iter_lines(f, file_lines(fs[f]))

\* Parser.read_path over the texts of the files a path matches
RECURSIVE read_path_files(_, _)
read_path_files(fs, paths) ==
  IF paths = <<>> THEN <<>>
  ELSE read_file(fs, Head(paths)) \o read_path_files(fs, Tail(paths))

\* ---- the argument of @session, a sequence of whitespace-separated tokens

\* What the tests of get_session_node see of a token: whether strptime with
\* %m/%d/%Y accepts it, whether str.isnumeric holds, and the integer of its
\* leading digits, the match of (\d+) at its start (None: no digit there).
TokenShape(tok) ==
  CASE tok = "5/1/2022" -> [date |-> TRUE, numeric |-> FALSE, lead |-> 5]
    [] tok = "1000" -> [date |-> FALSE, numeric |-> TRUE, lead |-> 1000]
    [] tok = "2000" -> [date |-> FALSE, numeric |-> TRUE, lead |-> 2000]
    [] tok = "10am" -> [date |-> FALSE, numeric |-> FALSE, lead |-> 10]
    [] tok = "At" -> [date |-> FALSE, numeric |-> FALSE, lead |-> None]
    [] tok = "" -> [date |-> FALSE, numeric |-> FALSE, lead |-> None]

\* The tokens joined by one space.
RECURSIVE JoinTokens(_)
JoinTokens(toks) ==
  IF toks = <<>> THEN ""
  ELSE IF Len(toks) = 1 THEN toks[1]
  ELSE toks[1] \o " " \o JoinTokens(Tail(toks))

\* SessionParser.get_session_node on the stripped argument arg: the groups
\* of  ^([^\s]*)(\s+(\d+))?(\s+(.+))?  and the tests on the first one.
\* Python's None is "None" for date and name, None for target.
get_session_node(arg) ==
  LET group1 == IF arg = <<>> THEN "" ELSE arg[1]
      second == IF Len(arg) >= 2 THEN TokenShape(arg[2]) ELSE TokenShape("")
      group3 == second.lead
      group5 == IF Len(arg) < 2 THEN "None"
                ELSE IF group3 = None THEN JoinTokens(Tail(arg))
                ELSE IF second.numeric /\ Len(arg) >= 3 THEN JoinTokens(Tail(Tail(arg)))
                ELSE "None"
      first == TokenShape(group1)
  IN [date |-> IF first.date THEN group1 ELSE "None",
      target |-> IF ~first.date /\ first.numeric THEN first.lead ELSE group3,
      name |-> IF first.date \/ first.numeric THEN group5
               ELSE group1 \o (IF group5 \notin {"None", ""} THEN " " \o group5 ELSE "")]

\* Parser.list_path for an @include argument: the files the path matches.
list_path(inc) ==
  IF inc \in FileIds THEN <<inc>>
  ELSE IF inc = Glob23 THEN <<2, 3>>
  ELSE <<>>

\* Parser.list_path:  if (len(entries) == 0) and not os.path.isdir(glob_path):
\* raise ValueError
list_path_raises(inc) == list_path(inc) = <<>> /\ inc # EmptyDir

\* StatusNode.Statuses
Statuses == {"new", "draft", "revision", "done"}

\* ---------------------------------------------------------------- AST nodes
\* A node is a record of the sequence ns; its id is its index.  pos and strm
\* (the stream position and the stream of its source line) and expect (the
\* session in force when it was created) are history fields.

StructuralKinds == {"Document", "Act", "Part", "Chapter", "Scene", "Section"}

KindOf(tok) ==
  CASE tok = TokACT -> "Act" [] tok = TokPART -> "Part"
    [] tok = TokCHAPTER -> "Chapter" [] tok = TokSCENE -> "Scene"
    [] tok = TokSECTION -> "Section" [] tok = TokTITLE -> "Title"
    [] tok = TokAUTHOR -> "Author" [] tok = TokTODO -> "Todo"

\* ASTNode.__init__ (DocumentNode.__init__ for kind "Document")
NewNode(kind, sl, p, strm, number, title, expect) ==
  [kind |-> kind, parent |-> 0, nodes |-> <<>>, session |-> 0, instruction |-> "",
   session_template |-> 0, source |-> sl.source, lineno |-> sl.lineno,
   pos |-> p, strm |-> strm, number |-> number, title |-> title,
   expect |-> expect]

DocumentNode ==
  NewNode("Document", [source |-> 0, lineno |-> 0], None, 0, None, "", 0)

\* ASTNode.is_structural_node
is_structural_node(ns, id) == ns[id].kind \in StructuralKinds

\* An append that hands down the holder's own session only, never the
\* template in force on the holder.
append_without_template(ns, holder, child) ==
  [ns EXCEPT
     ![child].parent = holder,
     ![child].session = IF ns[holder].session # 0 THEN ns[holder].session ELSE @,
     ![holder].nodes = Append(@, child)]

\* ASTNode.append
append(ns, holder, child) ==
  [ns EXCEPT
     ![child].parent = holder,
     ![child].session =
        IF ns[holder].session_template # 0 THEN ns[holder].session_template
        ELSE IF ns[holder].session # 0 THEN ns[holder].session
        ELSE @,
     ![holder].nodes = Append(@, child)]

\* An extend that appends the children last to first.
RECURSIVE extend_reversed(_, _, _)
extend_reversed(ns, holder, children) ==
  IF children = <<>> THEN ns
  ELSE append(extend_reversed(ns, holder, Tail(children)), holder, Head(children))

\* An extend that lists the children under the holder and leaves each
\* child's parent as it was.
extend_keeping_parent(ns, holder, children) ==
  [ns EXCEPT ![holder].nodes = @ \o children]

\* ASTNode.extend
RECURSIVE extend(_, _, _)
extend(ns, holder, children) ==
  IF children = <<>> THEN ns
  ELSE extend(append(ns, holder, Head(children)), holder, Tail(children))

\* ASTNode.is_structural_leaf_node: the function handed to filter returns the
\* bound method child.is_structural_node, which is true of every child, so
\* next(...) finds a node as soon as the node has a child of any kind.
is_structural_leaf_node(ns, id) ==
  IF ~is_structural_node(ns, id) THEN FALSE
  ELSE ns[id].nodes = <<>>

\* str.split() of the text of a line: its words
split_words(text) ==
  CASE text = "" -> <<>>
    [] text = "a b" -> <<"a", "b">>
    [] OTHER -> <<text>>

\* ASTNode.find restricted to the children of a node: no recursion.
find_shallow(ns, ids, node_type) ==
  SelectSeq(ids, LAMBDA c : ns[c].kind = node_type)

\* ASTNode.find(node_type) over the children ids of a node, in the order of
\* the generator: each child, then what the child finds.
RECURSIVE find(_, _, _)
find(ns, ids, node_type) ==
  IF ids = <<>> THEN <<>>
  ELSE LET c == Head(ids) IN
       (IF ns[c].kind = node_type THEN <<c>> ELSE <<>>)
       \o find(ns, ns[c].nodes, node_type) \o find(ns, Tail(ids), node_type)

\* sum(len(child.text.split()) for child in ...) when words, and
\* sum(len(child.text) for child in ...) otherwise
RECURSIVE sum_text(_, _, _)
sum_text(ns, ids, words) ==
  IF ids = <<>> THEN 0
  ELSE (IF words THEN Len(split_words(ns[Head(ids)].title))
        ELSE Len(ns[Head(ids)].title))
       + sum_text(ns, Tail(ids), words)

\* ASTNode.wordcount()
wordcount(ns, id) ==
  IF ns[id].kind = "Text" THEN Len(split_words(ns[id].title))
  ELSE sum_text(ns, find(ns, ns[id].nodes, "Text"), TRUE)

\* ASTNode.charcount()
charcount(ns, id) ==
  IF ns[id].kind = "Text" THEN Len(ns[id].title)
  ELSE sum_text(ns, find(ns, ns[id].nodes, "Text"), FALSE)

\* ASTNode.find(TitleNode) in depth-first order, as the texts found
RECURSIVE find_titles(_, _)
find_titles(ns, ids) ==
  IF ids = <<>> THEN <<>>
  ELSE LET c == Head(ids) IN
       (IF ns[c].kind = "Title" /\ ns[c].title # "" THEN <<ns[c].title>> ELSE <<>>)
       \o find_titles(ns, ns[c].nodes) \o find_titles(ns, Tail(ids))

\* __str__ of the structural nodes and of DocumentNode: the string is modelled
\* by its parts [kind, n, t]; a number or title that is None, 0 or "" is left
\* out of the string, and a Document without titles prints as "Document".
node_str(ns, id) ==
  IF ns[id].kind = "Document"
  THEN [kind |-> "Document", n |-> None, t |-> find_titles(ns, ns[id].nodes)]
  ELSE [kind |-> ns[id].kind,
        n |-> IF ns[id].number \in {None, 0} THEN None ELSE ns[id].number,
        t |-> IF ns[id].title = "" THEN <<>> ELSE <<ns[id].title>>]

\* ASTNode.structural_lineage
RECURSIVE structural_lineage(_, _)
structural_lineage(ns, id) ==
  IF id = 0 THEN <<>>
  ELSE structural_lineage(ns, ns[id].parent)
       \o (IF is_structural_node(ns, id) THEN <<id>> ELSE <<>>)

\* ASTNode.structural_path
structural_path(ns, id) ==
  LET lin == structural_lineage(ns, id)
  IN [i \in 1..Len(lin) |-> node_str(ns, lin[i])]

\* --------------------------------------------------------- sequence tracker
\* sequences is the dict Parser.sequences: a function on the keys seen.

\* Parser.sequence_key
sequence_key(ns, node_holder, structural_type) ==
  [path |-> structural_path(ns, node_holder), type |-> structural_type]

DictSet(d, key, val) ==
  [k \in (DOMAIN d) \cup {key} |-> IF k = key THEN val ELSE d[k]]

\* Parser.next_sequence: [seqs, number, warn]
next_sequence(seqs, key) ==
  LET old == IF key \in DOMAIN seqs THEN seqs[key] ELSE 0
  IN [seqs |-> DictSet(seqs, key, old + 1), number |-> old + 1, warn |-> ""]

\* A set_sequence that warns of a smaller or equal number but not of a gap.
set_sequence_gap_unnoticed(seqs, key, number) ==
  [seqs |-> DictSet(seqs, key, number), number |-> number,
   warn |-> IF key \notin DOMAIN seqs THEN ""
            ELSE IF seqs[key] > number THEN "less"
            ELSE IF seqs[key] = number THEN "same"
            ELSE ""]

\* Parser.set_sequence: [seqs, number, warn]
set_sequence(seqs, key, number) ==
  [seqs |-> DictSet(seqs, key, number), number |-> number,
   warn |-> IF key \notin DOMAIN seqs THEN ""
            ELSE IF seqs[key] > number THEN "less"
            ELSE IF seqs[key] = number THEN "same"
            ELSE IF seqs[key] < number - 1 THEN "gap"
            ELSE ""]

\* Parser.get_or_set_sequence
get_or_set_sequence(seqs, key, number) ==
  IF number = None THEN next_sequence(seqs, key)
  ELSE set_sequence(seqs, key, number)

\* A numbering in which SectionParser asks the tracker like the others.
structural_number_tracked(seqs, key, tok, number) ==
  get_or_set_sequence(seqs, key, number)

\* The number a structural sub-parser gives its node: [seqs, number, warn].
\* ActParser, PartParser, ChapterParser and SceneParser call
\* get_or_set_sequence; in SectionParser the call is commented out and the
\* number stays as written on the line.
structural_number(seqs, key, tok, number) ==
  IF tok = TokSECTION THEN [seqs |-> seqs, number |-> number, warn |-> ""]
  ELSE get_or_set_sequence(seqs, key, number)

\* Parser.set_session_template: the holder and all its ancestors
RECURSIVE set_session_template(_, _, _)
set_session_template(ns, me, session_template) ==
  IF me = 0 THEN ns
  ELSE set_session_template(
         [ns EXCEPT ![me].session_template = session_template],
         ns[me].parent, session_template)

\* Stop sets in which a Part does not end the scan of a Chapter.
StopTokensChapterSansPart(tok) ==
  CASE tok = TokACT -> {TokACT}
    [] tok = TokPART -> {TokPART, TokACT}
    [] tok = TokCHAPTER -> {TokCHAPTER, TokACT}
    [] tok = TokSCENE -> {TokEOF, TokSCENE, TokCHAPTER, TokPART, TokACT}
    [] tok = TokSECTION -> {TokEOF, TokSECTION, TokCHAPTER, TokPART, TokACT}

\* The stop set of each structural sub-parser's scan loop.
StopTokens(tok) ==
  CASE tok = TokACT -> {TokACT}
    [] tok = TokPART -> {TokPART, TokACT}
    [] tok = TokCHAPTER -> {TokCHAPTER, TokPART, TokACT}
    [] tok = TokSCENE -> {TokEOF, TokSCENE, TokCHAPTER, TokPART, TokACT}
    [] tok = TokSECTION -> {TokEOF, TokSECTION, TokCHAPTER, TokPART, TokACT}

\* The scan loop of a structural sub-parser, from position p over the stream
\* strm:  while lines.valid_index(pos): line = lines.get(pos); ... pos += 1
\* [buf, pos, exc]
RECURSIVE scan(_, _, _, _)
scan(b, p, tok, strm) ==
  LET v == ValidIndex(b, p, Len(strm)) IN
  IF ~v.ret THEN [buf |-> v.buf, pos |-> p, exc |-> ""]
  ELSE LET g == Get(v.buf, p, Len(strm)) IN
       IF g.exc # "" THEN [buf |-> g.buf, pos |-> p, exc |-> g.exc]
       ELSE IF \E t \in StopTokens(tok) : is_instruction(strm[g.rec + 1].content, t)
            THEN [buf |-> g.buf, pos |-> p, exc |-> ""]
            ELSE scan(g.buf, p + 1, tok, strm)


\* The loop of CommentBlockParser.parse from position p over the stream strm:
\*   while not stop and lines.valid_index(pos): line = lines.get(pos);
\*   pos += 1; if line.content.endswith(COMMENT_BLOCK_END): break
\* [buf, pos, exc]
RECURSIVE block(_, _, _, _)
block(b, p, strm, stop) ==
  IF stop THEN [buf |-> b, pos |-> p, exc |-> ""]
  ELSE LET v == ValidIndex(b, p, Len(strm)) IN
       IF ~v.ret THEN [buf |-> v.buf, pos |-> p, exc |-> ""]
       ELSE LET g == Get(v.buf, p, Len(strm)) IN
            IF g.exc # "" THEN [buf |-> g.buf, pos |-> p, exc |-> g.exc]
            ELSE block(g.buf, p + 1, strm,
                       endswith_block_end(strm[g.rec + 1].content))

\* ------------------------------------------------------------ parser input

\* Does some file hold an @include of file f?
Includes(fs, f) ==
  \E g \in FileIds : \E i \in 1..Len(fs[g]) :
     fs[g][i].kw = TokINCLUDE /\ \E k \in 1..Len(list_path(fs[g][i].inc)) :
                                    list_path(fs[g][i].inc)[k] = f

\* The inputs: at most MaxLines lines over the two files, drawn from alphabet;
\* the root path matches file 1 or files 1 and 2; a file that is not read is
\* empty.
InputOK(alphabet, fs, rt) ==
  /\ \A f \in FileIds : \A i \in 1..Len(fs[f]) : fs[f][i] \in alphabet
  /\ rt = <<1>> /\ ~Includes(fs, 2) => fs[2] = <<>>

\* Parser.parse_doc_from_path up to the first call of Parser.parse
ParseInit(alphabet) ==
  /\ \E n1 \in 0..MaxLines : \E n2 \in 0..(MaxLines - n1) :
       \E f1 \in [1..n1 -> alphabet], f2 \in [1..n2 -> alphabet] :
          files = <<f1, f2, <<>>>>
  /\ root \in {<<1>>, <<1, 2>>}
  /\ InputOK(alphabet, files, root)
  /\ nodes = <<DocumentNode>>
  /\ sessions = <<>>
  /\ sequences = <<>>
  /\ warnings = <<>>
  /\ gens = <<read_path(files, root)>>
  /\ bufs = <<NewBuffer>>
  /\ stack = <<[holder |-> 1, pos |-> 0, end |-> None, lines |-> 1,
                ret |-> "top", resume |-> None]>>
  /\ status = "run"
  /\ result = 0
  /\ cur = 0
  /\ dispatched = <<>>

\* Parser.parse_doc_from_path of file 1 up to the first call of Parser.parse,
\* beside two files 2 and 3 that @include lines can name: at most MaxLines
\* lines over the three files; a file that no line includes is empty.
ParseInit3(alphabet) ==
  /\ \E n1 \in 0..MaxLines : \E n2 \in 0..(MaxLines - n1) :
       \E n3 \in 0..(MaxLines - n1 - n2) :
         \E f1 \in [1..n1 -> alphabet], f2 \in [1..n2 -> alphabet],
            f3 \in [1..n3 -> alphabet] :
            files = <<f1, f2, f3>>
  /\ root = <<1>>
  /\ \A f \in {2, 3} : ~Includes(files, f) => files[f] = <<>>
  /\ nodes = <<DocumentNode>>
  /\ sessions = <<>>
  /\ sequences = <<>>
  /\ warnings = <<>>
  /\ gens = <<read_path(files, root)>>
  /\ bufs = <<NewBuffer>>
  /\ stack = <<[holder |-> 1, pos |-> 0, end |-> None, lines |-> 1,
                ret |-> "top", resume |-> None]>>
  /\ status = "run"
  /\ result = 0
  /\ cur = 0
  /\ dispatched = <<>>

BufIdle ==
  /\ ibuf = NewBuffer /\ ilen = 0 /\ truncs = {}
  /\ last = [op |-> "init", arg |-> 0, exc |-> "", rec |-> None]

ParseIdle ==
  /\ files = <<<<>>, <<>>, <<>>>> /\ root = <<>> /\ nodes = <<>> /\ sessions = <<>>
  /\ sequences = <<>> /\ warnings = <<>> /\ gens = <<>> /\ bufs = <<>>
  /\ stack = <<>> /\ status = "idle" /\ result = 0 /\ cur = 0
  /\ dispatched = <<>>

\* ---- the readers alone: files holds texts, gens the records read

Texts == UNION {[1..n -> {"a", NEWLINE}] : n \in 0..MaxText}

ReadInit ==
  /\ \E t1, t2 \in Texts : files = <<t1, t2, <<>>>>
  /\ ibuf = NewBuffer /\ ilen = 0 /\ truncs = {}
  /\ last = [op |-> "init", arg |-> 0, exc |-> "", rec |-> None]
  /\ root = <<>> /\ nodes = <<>> /\ sessions = <<>>
  /\ sequences = <<>> /\ warnings = <<>> /\ gens = <<>> /\ bufs = <<>>
  /\ stack = <<>> /\ status = "idle" /\ result = 0 /\ cur = 0
  /\ dispatched = <<>>

ReadUnchanged ==
  UNCHANGED <<ibuf, ilen, last, truncs, files, nodes, sessions, sequences,
              warnings, bufs, stack, result, cur, dispatched>>

\* [line for line in parser.read_str(text)]
ReadStr ==
  /\ status = "idle"
  /\ gens' = <<read_str(files[1])>>
  /\ status' = "read_str" /\ root' = <<>>
  /\ ReadUnchanged

\* [line for line in parser.read_file(path)]
ReadFile ==
  /\ status = "idle"
  /\ \E f \in {1, 2} :
       /\ gens' = <<read_file(files, f)>>
       /\ root' = <<f>>
  /\ status' = "read_file"
  /\ ReadUnchanged

\* [line for line in parser.read_path(glob)], the glob matching both files
ReadPath ==
  /\ status = "idle"
  /\ \E paths \in {<<1, 2>>, <<2, 1>>} :
       /\ gens' = <<read_path_files(files, paths)>>
       /\ root' = paths
  /\ status' = "read_path"
  /\ ReadUnchanged

\* ---- get_session_node alone: files[1] holds the tokens of the argument

SessionArgs == UNION {[1..n -> {"5/1/2022", "1000", "2000", "10am", "At"}] : n \in 0..MaxArgs}

SessionArgInit ==
  /\ \E arg \in SessionArgs : files = <<arg, <<>>, <<>>>>
  /\ ibuf = NewBuffer /\ ilen = 0 /\ truncs = {}
  /\ last = [op |-> "init", arg |-> 0, exc |-> "", rec |-> None]
  /\ root = <<>> /\ nodes = <<>> /\ sessions = <<>>
  /\ sequences = <<>> /\ warnings = <<>> /\ gens = <<>> /\ bufs = <<>>
  /\ stack = <<>> /\ status = "idle" /\ result = 0 /\ cur = 0
  /\ dispatched = <<>>

\* SessionParser().get_session_node(line)
GetSessionNode ==
  /\ status = "idle"
  /\ sessions' = <<get_session_node(files[1])>>
  /\ status' = "session"
  /\ UNCHANGED <<ibuf, ilen, last, truncs, files, root, nodes, sequences,
                 warnings, gens, bufs, stack, result, cur, dispatched>>

\* ---- the head of the loop of Parser.parse, for the innermost call
\*   while lines.valid_index(pos) and (end == None or end > pos):
\*       line = lines.get(pos)
F == stack[Len(stack)]
S == gens[F.lines]
V == ValidIndex(bufs[F.lines], F.pos, Len(S))
Cont == V.ret /\ (F.end = None \/ F.end > F.pos)
G == Get(V.buf, F.pos, Len(S))
Line == S[G.rec + 1]

Running == status = "run" /\ stack # <<>>
Dispatching == Running /\ Cont /\ G.exc = ""
Instruction == get_instruction(Line.content)

\* pos += 1 in the innermost call, the buffer as the loop head left it
Advance ==
  /\ stack' = [stack EXCEPT ![Len(stack)].pos = @ + 1]
  /\ bufs' = [bufs EXCEPT ![F.lines] = G.buf]
  /\ dispatched' = Append(dispatched,
        [holder |-> F.holder, lines |-> F.lines, pos |-> G.rec])

\* node_holder.append(<a new leaf node>)
AppendLeaf(kind, text, instruction) ==
  LET n == [NewNode(kind, Line, G.rec, F.lines, None, text, cur)
              EXCEPT !.instruction = instruction]
  IN nodes' = append(Append(nodes, n), F.holder, Len(nodes) + 1)

\* lines.get(pos) raises in the loop of Parser.parse
GetRaises ==
  /\ Running /\ Cont /\ G.exc # ""
  /\ status' = G.exc
  /\ bufs' = [bufs EXCEPT ![F.lines] = G.buf]
  /\ UNCHANGED <<ibuf, ilen, last, truncs, files, root, nodes, sessions,
                 sequences, warnings, gens, stack, result, cur, dispatched>>

\* else: node_holder.append(TextNode(line, line.content))
DispatchText ==
  /\ Dispatching /\ ~is_instruction(Line.content, TokINSTRUCTION)
  /\ AppendLeaf("Text", Line.content.title, "")
  /\ Advance
  /\ UNCHANGED <<ibuf, ilen, last, truncs, files, root, sessions, sequences,
                 warnings, gens, status, result, cur>>

\* case Tokens.EOF
DispatchEOF ==
  /\ Dispatching /\ is_instruction(Line.content, TokINSTRUCTION)
  /\ Instruction = TokEOF
  /\ nodes' = set_session_template(nodes, F.holder, 0)
  /\ cur' = 0
  /\ Advance
  /\ UNCHANGED <<ibuf, ilen, last, truncs, files, root, sessions, sequences,
                 warnings, gens, status, result>>

\* case Tokens.END_SESSION
DispatchEndSession ==
  /\ Dispatching /\ is_instruction(Line.content, TokINSTRUCTION)
  /\ Instruction = TokEND_SESSION
  /\ nodes' = set_session_template(nodes, F.holder, 0)
  /\ cur' = 0
  /\ Advance
  /\ UNCHANGED <<ibuf, ilen, last, truncs, files, root, sessions, sequences,
                 warnings, gens, status, result>>

\* case Tokens.SESSION: SessionParser.get_session_node creates a new
\* SessionAttribute for the line
DispatchSession ==
  /\ Dispatching /\ is_instruction(Line.content, TokINSTRUCTION)
  /\ Instruction = TokSESSION
  /\ sessions' = Append(sessions, [source |-> Line.source, lineno |-> Line.lineno,
                                   arg |-> Line.content.title,
                                   strm |-> F.lines, pos |-> G.rec])
  /\ nodes' = set_session_template(nodes, F.holder, Len(sessions) + 1)
  /\ cur' = Len(sessions) + 1
  /\ Advance
  /\ UNCHANGED <<ibuf, ilen, last, truncs, files, root, sequences, warnings,
                 gens, status, result>>

\* case Tokens.AUTHOR, Tokens.TITLE, Tokens.TODO
DispatchLeaf ==
  /\ Dispatching /\ is_instruction(Line.content, TokINSTRUCTION)
  /\ Instruction \in LeafTokens
  /\ AppendLeaf(KindOf(Instruction), Line.content.title, "")
  /\ Advance
  /\ UNCHANGED <<ibuf, ilen, last, truncs, files, root, sessions, sequences,
                 warnings, gens, status, result, cur>>

\* case _
DispatchUnmapped ==
  /\ Dispatching /\ is_instruction(Line.content, TokINSTRUCTION)
  /\ Instruction \notin KnownTokens
  /\ AppendLeaf("Unmapped", Line.content.title, Instruction)
  /\ Advance
  /\ UNCHANGED <<ibuf, ilen, last, truncs, files, root, sessions, sequences,
                 warnings, gens, status, result, cur>>


\* case Tokens.ACT, PART, CHAPTER, SCENE, SECTION: the structural sub-parser
\* (ActParser.parse ... SectionParser.parse) up to its call of super().parse:
\* the number (SectionParser asks the tracker for none), the node, the scan.
DispatchStructural ==
  /\ Dispatching /\ is_instruction(Line.content, TokINSTRUCTION)
  /\ Instruction \in StructuralTokens
  /\ LET tok == Instruction
         r == structural_number(sequences, sequence_key(nodes, F.holder, tok),
                                tok, Line.content.num)
         id == Len(nodes) + 1
         n == NewNode(KindOf(tok), Line, G.rec, F.lines, r.number,
                      Line.content.title, cur)
         sc == scan(G.buf, F.pos + 1, tok, S)
     IN /\ sequences' = r.seqs
        /\ warnings' = IF r.warn = "" THEN warnings
                       ELSE Append(warnings, [type |-> tok, number |-> r.number,
                                              warn |-> r.warn])
        /\ nodes' = append(Append(nodes, n), F.holder, id)
        /\ bufs' = [bufs EXCEPT ![F.lines] = sc.buf]
        /\ IF sc.exc # ""
           THEN /\ status' = sc.exc
                /\ stack' = stack
           ELSE /\ status' = status
                /\ stack' = Append(stack,
                      [holder |-> id, pos |-> F.pos + 1, end |-> sc.pos,
                       lines |-> F.lines, ret |-> "struct", resume |-> sc.pos])
  /\ dispatched' = Append(dispatched,
        [holder |-> F.holder, lines |-> F.lines, pos |-> G.rec])
  /\ UNCHANGED <<ibuf, ilen, last, truncs, files, root, sessions, gens, result,
                 cur>>

\* The parse_path calls in progress.
Depth == Cardinality({i \in 1..Len(stack) : stack[i].ret # "struct"})

\* case Tokens.INCLUDE, a path that matches files: Parser(self.sequences)
\* .parse_path(path) up to its call of Parser.parse, over a new DocumentNode
\* and a new buffer
DispatchInclude ==
  /\ Dispatching /\ is_instruction(Line.content, TokINSTRUCTION)
  /\ Instruction = TokINCLUDE
  /\ ~list_path_raises(Line.content.inc)
  /\ Depth < MaxDepth
  /\ nodes' = Append(nodes, DocumentNode)
  /\ gens' = Append(gens, read_path(files, list_path(Line.content.inc)))
  /\ bufs' = Append([bufs EXCEPT ![F.lines] = G.buf], NewBuffer)
  /\ stack' = Append(stack,
        [holder |-> Len(nodes) + 1, pos |-> 0, end |-> None,
         lines |-> Len(bufs) + 1, ret |-> "include", resume |-> None])
  /\ dispatched' = Append(dispatched,
        [holder |-> F.holder, lines |-> F.lines, pos |-> G.rec])
  /\ UNCHANGED <<ibuf, ilen, last, truncs, files, root, sessions, sequences,
                 warnings, status, result, cur>>

\* case Tokens.INCLUDE with MaxDepth parse_path calls in progress: more calls
\* in progress than there are files, so some file is being parsed inside its
\* own parse and the calls nest until the interpreter's recursion limit
IncludeRecursion ==
  /\ Dispatching /\ is_instruction(Line.content, TokINSTRUCTION)
  /\ Instruction = TokINCLUDE
  /\ ~list_path_raises(Line.content.inc)
  /\ Depth >= MaxDepth
  /\ status' = "RecursionError"
  /\ bufs' = [bufs EXCEPT ![F.lines] = G.buf]
  /\ dispatched' = Append(dispatched,
        [holder |-> F.holder, lines |-> F.lines, pos |-> G.rec])
  /\ UNCHANGED <<ibuf, ilen, last, truncs, files, root, nodes, sessions,
                 sequences, warnings, gens, stack, result, cur>>

\* case Tokens.INCLUDE, a path that matches no file and is no directory:
\* list_path raises ValueError when the included parse pulls its first record
IncludeRaises ==
  /\ Dispatching /\ is_instruction(Line.content, TokINSTRUCTION)
  /\ Instruction = TokINCLUDE
  /\ list_path_raises(Line.content.inc)
  /\ status' = "ValueError"
  /\ bufs' = [bufs EXCEPT ![F.lines] = G.buf]
  /\ dispatched' = Append(dispatched,
        [holder |-> F.holder, lines |-> F.lines, pos |-> G.rec])
  /\ UNCHANGED <<ibuf, ilen, last, truncs, files, root, nodes, sessions,
                 sequences, warnings, gens, stack, result, cur>>

\* case Tokens.COMMENT_BLOCK_START: CommentBlockParser.parse, which reads to
\* the line that closes the block or to the end of the stream, appends one
\* CommentNode for the first line and returns the position it reached
DispatchCommentBlock ==
  /\ Dispatching /\ is_instruction(Line.content, TokINSTRUCTION)
  /\ Instruction = TokCOMMENT_BLOCK_START
  /\ LET bl == block(G.buf, F.pos + 1, S, endswith_block_end(Line.content))
         n == NewNode("Comment", Line, G.rec, F.lines, None, Line.content.title, cur)
     IN /\ bufs' = [bufs EXCEPT ![F.lines] = bl.buf]
        /\ IF bl.exc # ""
           THEN /\ status' = bl.exc
                /\ UNCHANGED <<nodes, stack>>
           ELSE /\ status' = status
                /\ nodes' = append(Append(nodes, n), F.holder, Len(nodes) + 1)
                /\ stack' = [stack EXCEPT ![Len(stack)].pos = bl.pos]
  /\ dispatched' = Append(dispatched,
        [holder |-> F.holder, lines |-> F.lines, pos |-> G.rec])
  /\ UNCHANGED <<ibuf, ilen, last, truncs, files, root, sessions, sequences,
                 warnings, gens, result, cur>>

\* case Tokens.STATUS, a valid status: node_holder.append(StatusNode(...))
DispatchStatus ==
  /\ Dispatching /\ is_instruction(Line.content, TokINSTRUCTION)
  /\ Instruction = TokSTATUS
  /\ Line.content.title \in Statuses
  /\ AppendLeaf("Status", Line.content.title, "")
  /\ Advance
  /\ UNCHANGED <<ibuf, ilen, last, truncs, files, root, sessions, sequences,
                 warnings, gens, status, result, cur>>

\* case Tokens.STATUS, any other value: StatusNode.Statuses(status) raises
\* ValueError
StatusRaises ==
  /\ Dispatching /\ is_instruction(Line.content, TokINSTRUCTION)
  /\ Instruction = TokSTATUS
  /\ Line.content.title \notin Statuses
  /\ status' = "ValueError"
  /\ bufs' = [bufs EXCEPT ![F.lines] = G.buf]
  /\ dispatched' = Append(dispatched,
        [holder |-> F.holder, lines |-> F.lines, pos |-> G.rec])
  /\ UNCHANGED <<ibuf, ilen, last, truncs, files, root, nodes, sessions,
                 sequences, warnings, gens, stack, result, cur>>

\* ---- the end of Parser.parse:  lines.truncate(pos - 1); return pos
LoopExit == Running /\ ~Cont
Purged == [bufs EXCEPT ![F.lines] = Truncate(V.buf, F.pos - 1)]
Caller == stack[Len(stack) - 1]
Popped == SubSeq(stack, 1, Len(stack) - 1)

\* back in the structural sub-parser, which returns the position its scan
\* stopped at (the value super().parse returned is dropped)
ReturnStructural ==
  /\ LoopExit /\ F.ret = "struct"
  /\ bufs' = Purged
  /\ stack' = [Popped EXCEPT ![Len(stack) - 1].pos = F.resume]
  /\ UNCHANGED <<ibuf, ilen, last, truncs, files, root, nodes, sessions,
                 sequences, warnings, gens, status, result, cur, dispatched>>

\* back in parse_path and then in the INCLUDE case:
\* node_holder.extend(<the nodes of the included document>); pos += 1
ReturnInclude ==
  /\ LoopExit /\ F.ret = "include"
  /\ bufs' = Purged
  /\ nodes' = extend(nodes, Caller.holder, nodes[F.holder].nodes)
  /\ stack' = [Popped EXCEPT ![Len(stack) - 1].pos = @ + 1]
  /\ UNCHANGED <<ibuf, ilen, last, truncs, files, root, sessions, sequences,
                 warnings, gens, status, result, cur, dispatched>>

\* back in parse_path and then in parse_doc_from_path:
\* doc = DocumentNode(); doc.extend(<the nodes parsed>); return doc
ReturnTop ==
  /\ LoopExit /\ F.ret = "top"
  /\ bufs' = Purged
  /\ nodes' = extend(Append(nodes, DocumentNode), Len(nodes) + 1,
                     nodes[F.holder].nodes)
  /\ result' = Len(nodes) + 1
  /\ status' = "done"
  /\ stack' = <<>>
  /\ UNCHANGED <<ibuf, ilen, last, truncs, files, root, sessions, sequences,
                 warnings, gens, cur, dispatched>>

\* a second parse_doc_from_path of the same path through the same Parser
\* instance, up to its call of Parser.parse: a new DocumentNode and a new
\* buffer, and self.sequences as the first parse left it; last keeps the
\* Document the first call returned
ParseAgain ==
  /\ status = "done" /\ last.op = "init"
  /\ last' = [op |-> "parse_doc", arg |-> result, exc |-> "", rec |-> None]
  /\ nodes' = Append(nodes, DocumentNode)
  /\ gens' = Append(gens, read_path(files, root))
  /\ bufs' = Append(bufs, NewBuffer)
  /\ stack' = <<[holder |-> Len(nodes) + 1, pos |-> 0, end |-> None,
                 lines |-> Len(bufs) + 1, ret |-> "top", resume |-> None]>>
  /\ status' = "run"
  /\ result' = 0
  /\ cur' = 0
  /\ UNCHANGED <<ibuf, ilen, truncs, files, root, sessions, sequences,
                 warnings, dispatched>>

\* ---- queries on the returned tree; last records the call and its value

\* node.wordcount() or node.charcount() on the Document returned or on a
\* structural node of it
Count ==
  /\ status = "done" /\ last.op = "init"
  /\ \E id \in DOMAIN nodes : \E op \in {"wordcount", "charcount"} :
       /\ nodes[id].kind \in StructuralKinds
       /\ id = result \/ nodes[id].parent # 0
       /\ last' = [op |-> op, arg |-> id, exc |-> "",
                   rec |-> IF op = "wordcount" THEN wordcount(nodes, id)
                           ELSE charcount(nodes, id)]
  /\ UNCHANGED <<ibuf, ilen, truncs>>
  /\ UNCHANGED ParserVars

\* node.is_structural_leaf_node() on a node of the returned tree
IsStructuralLeafNode ==
  /\ status = "done" /\ last.op = "init"
  /\ \E id \in DOMAIN nodes :
       /\ id = result \/ nodes[id].parent # 0
       /\ last' = [op |-> "is_structural_leaf_node", arg |-> id, exc |-> "",
                   rec |-> is_structural_leaf_node(nodes, id)]
  /\ UNCHANGED <<ibuf, ilen, truncs>>
  /\ UNCHANGED ParserVars

\* ---------------------------------------------------------- specifications

\* The buffer on its own, under any sequence of calls.
BufSpecInit == BufInit /\ ParseIdle
BufNext == BufRead \/ BufValidIndex \/ BufGet \/ BufTruncate
BufSpec == BufSpecInit /\ [][BufNext]_vars

\* Sessions in one stream of one or two files.
SessionAlphabet ==
  {TextLine, InstrArg(TokSESSION, None, "s"), Instr(TokEND_SESSION),
   Instr(TokCHAPTER), Instr(TokSCENE), Instr(TokSECTION)}
SessionInit == BufIdle /\ ParseInit(SessionAlphabet)
SessionNext ==
  \/ DispatchText \/ DispatchEOF \/ DispatchEndSession \/ DispatchSession
  \/ DispatchStructural \/ ReturnStructural \/ ReturnTop \/ GetRaises
SessionSpec == SessionInit /\ [][SessionNext]_vars


\* Numbering in one stream: sibling ordinals, parents with equal labels.
NumberAlphabet ==
  {Instr(TokCHAPTER), Instr(TokSCENE), Instr(TokPART),
   InstrArg(TokPART, 1, "A"), InstrArg(TokTITLE, None, "X")}
NumberInit == BufIdle /\ ParseInit(NumberAlphabet)
NumberNext ==
  \/ DispatchEOF \/ DispatchLeaf \/ DispatchStructural \/ ReturnStructural
  \/ ReturnTop
NumberSpec == NumberInit /\ [][NumberNext]_vars

\* Nesting of the structural kinds, with an instruction the parser does not
\* know and with included files.
StructAlphabet ==
  {TextLine, Instr(TokACT), Instr(TokPART), Instr(TokCHAPTER), Instr(TokSCENE),
   Instr(TokSECTION), Instr("@actor"), IncludeLine(2)}
StructInit == BufIdle /\ ParseInit(StructAlphabet)
StructNext ==
  \/ DispatchText \/ DispatchEOF \/ DispatchUnmapped \/ DispatchStructural
  \/ DispatchInclude \/ ReturnStructural \/ ReturnInclude \/ ReturnTop
  \/ GetRaises
StructSpec == StructInit /\ [][StructNext]_vars

\* Nesting of the structural kinds in one stream and across @include.
HierarchyAlphabet ==
  {Instr(TokACT), Instr(TokPART), Instr(TokCHAPTER), Instr(TokSCENE),
   Instr(TokSECTION), IncludeLine(2)}
HierarchyInit == BufIdle /\ ParseInit(HierarchyAlphabet)
HierarchyNext ==
  \/ DispatchEOF \/ DispatchStructural \/ DispatchInclude \/ ReturnStructural
  \/ ReturnInclude \/ ReturnTop \/ GetRaises
HierarchySpec == HierarchyInit /\ [][HierarchyNext]_vars

\* @include of one file or of a glob of two, with and without a session.
IncludeAlphabet ==
  {TextLine, Instr(TokCHAPTER), InstrArg(TokSESSION, None, "s"),
   IncludeLine(3), IncludeLine(Glob23)}
IncludeInit == BufIdle /\ ParseInit3(IncludeAlphabet)
IncludeNext ==
  \/ DispatchText \/ DispatchEOF \/ DispatchSession \/ DispatchStructural
  \/ DispatchInclude \/ ReturnStructural \/ ReturnInclude \/ ReturnTop
IncludeSpec == IncludeInit /\ [][IncludeNext]_vars

\* Explicit and automatic numbers of one kind under changing parents.
SequenceAlphabet ==
  {Instr(TokCHAPTER), InstrArg(TokCHAPTER, 1, ""), InstrArg(TokCHAPTER, 2, ""),
   InstrArg(TokCHAPTER, 3, ""), Instr(TokPART)}
SequenceInit == BufIdle /\ ParseInit(SequenceAlphabet)
SequenceNext ==
  \/ DispatchEOF \/ DispatchStructural \/ ReturnStructural \/ ReturnTop
SequenceSpec == SequenceInit /\ [][SequenceNext]_vars

\* The fatal conditions, at top level, inside structural nodes and inside an
\* included file.
FatalAlphabet ==
  {Instr(TokCHAPTER), Instr(TokSCENE), InstrArg(TokSTATUS, None, "done"),
   InstrArg(TokSTATUS, None, "bad"), IncludeLine(3), IncludeLine(0),
   IncludeLine(EmptyDir)}
FatalInit == BufIdle /\ ParseInit3(FatalAlphabet)
FatalNext ==
  \/ DispatchEOF \/ DispatchStatus \/ StatusRaises \/ DispatchStructural
  \/ DispatchInclude \/ IncludeRaises \/ ReturnStructural \/ ReturnInclude
  \/ ReturnTop
FatalSpec == FatalInit /\ [][FatalNext]_vars

\* Comment blocks, closed and unclosed, at top level and in structural nodes.
CommentAlphabet ==
  {TextLine, CommentOpen, CommentInline, TextClose, Instr(TokCHAPTER),
   InstrClose(TokCHAPTER), Instr(TokSCENE)}
CommentInit == BufIdle /\ ParseInit(CommentAlphabet)
CommentNext ==
  \/ DispatchText \/ DispatchEOF \/ DispatchCommentBlock \/ DispatchStructural
  \/ ReturnStructural \/ ReturnTop \/ GetRaises
CommentSpec == CommentInit /\ [][CommentNext]_vars

\* Sections, numbered and not, among scenes, chapters and text.
SectionAlphabet ==
  {Instr(TokSECTION), InstrArg(TokSECTION, 1, "A"), Instr(TokSCENE),
   Instr(TokCHAPTER), TextLine}
SectionInit == BufIdle /\ ParseInit(SectionAlphabet)
SectionNext ==
  \/ DispatchText \/ DispatchEOF \/ DispatchStructural \/ ReturnStructural
  \/ ReturnTop \/ GetRaises
SectionSpec == SectionInit /\ [][SectionNext]_vars

\* Lines of text and instructions the parser does not know, inside scenes
\* and sections.
UnmappedAlphabet ==
  {TextLine, Instr(TokSCENE), Instr(TokSECTION), InstrArg("@scenery", None, "x"),
   InstrArg("@foo", None, "x")}
UnmappedInit == BufIdle /\ ParseInit(UnmappedAlphabet)
UnmappedNext ==
  \/ DispatchText \/ DispatchEOF \/ DispatchUnmapped \/ DispatchStructural
  \/ ReturnStructural \/ ReturnTop \/ GetRaises
UnmappedSpec == UnmappedInit /\ [][UnmappedNext]_vars

\* Counting words and characters in trees of chapters and scenes with text
\* and notes to self.
CountInit ==
  BufIdle /\ ParseInit({[kw |-> "", num |-> None, title |-> "a b", inc |-> 0],
                        Instr(TokCHAPTER), Instr(TokSCENE),
                        InstrArg(TokTODO, None, "a b")})
CountSpec ==
  CountInit /\ [][\/ DispatchText \/ DispatchEOF \/ DispatchLeaf
                  \/ DispatchStructural \/ ReturnStructural \/ ReturnTop
                  \/ Count \/ IsStructuralLeafNode]_vars

\* Files that include each other and themselves; every step that can be
\* taken is taken in the end.
LoopInit ==
  BufIdle /\ ParseInit({TextLine, IncludeLine(1), IncludeLine(2)})
LoopNext ==
  \/ DispatchText \/ DispatchEOF \/ DispatchInclude \/ IncludeRecursion
  \/ ReturnInclude \/ ReturnTop
LoopSpec == LoopInit /\ [][LoopNext]_vars /\ WF_vars(LoopNext)

\* Two parses of the same chapters and scenes through one Parser.
TwiceInit == BufIdle /\ ParseInit({TextLine, Instr(TokCHAPTER), Instr(TokSCENE)})
TwiceSpec ==
  TwiceInit /\ [][\/ DispatchText \/ DispatchEOF \/ DispatchStructural
                  \/ ReturnStructural \/ ReturnTop \/ ParseAgain]_vars

\* get_session_node on arguments of up to MaxArgs tokens.
SessionArgSpec == SessionArgInit /\ [][GetSessionNode]_vars

\* The readers on texts of up to MaxText characters.
ReadNext == ReadStr \/ ReadFile \/ ReadPath
ReadSpec == ReadInit /\ [][ReadNext]_vars

\* ------------------------------------------------------------------ claims

\* The stream position of the line node i was built from holds an explicit
\* number.
Explicit(i) == gens[nodes[i].strm][nodes[i].pos + 1].content.num # None

Siblings(i) == nodes[nodes[i].parent].nodes

IndexIn(seq, x) == CHOOSE k \in 1..Len(seq) : seq[k] = x

RECURSIVE Ancestors(_)
Ancestors(i) ==
  IF nodes[i].parent = 0 THEN {}
  ELSE {nodes[i].parent} \cup Ancestors(nodes[i].parent)

\* C1: once an @endsession line or an end marker has been dispatched, every
\* node created before the next @session line has no session (expect is the
\* session in force when the node was created, 0 for none).
C1_NoSessionAfterEnd ==
  \A i \in DOMAIN nodes : nodes[i].expect = 0 => nodes[i].session = 0

\* C2: in one stream, every node created while the session of a @session line
\* is in force references that very SessionAttribute (sessions are compared
\* by identity: the id of the object the @session line created).
C2_SessionIdentity ==
  \A i \in DOMAIN nodes : nodes[i].expect # 0 => nodes[i].session = nodes[i].expect

\* C2 witness: the parse is over, two @session lines were dispatched, and a
\* node inside a structural node opened under the first session carries the
\* second one.
C2_Witness ==
  /\ status = "done"
  /\ \E i \in DOMAIN nodes :
       /\ nodes[i].expect = 2 /\ nodes[i].session = 2
       /\ nodes[i].parent # 0
       /\ nodes[nodes[i].parent].kind \in {"Chapter", "Scene", "Section"}
       /\ nodes[nodes[i].parent].session = 1

\* C3: the Nth unnumbered Act, Part, Chapter or Scene among the children of
\* one parent (none of them explicitly numbered, none spliced in from another
\* stream) has number N.
C3_AutoNumberIsOrdinal ==
  \A i \in DOMAIN nodes :
    ( /\ nodes[i].kind \in {"Act", "Part", "Chapter", "Scene"}
      /\ nodes[i].parent # 0
      /\ \A k \in 1..Len(Siblings(i)) :
            LET j == Siblings(i)[k] IN
            /\ nodes[j].strm = nodes[i].strm
            /\ nodes[j].kind = nodes[i].kind => ~Explicit(j) )
    => nodes[i].number =
         Cardinality({k \in 1..IndexIn(Siblings(i), i) :
                        nodes[Siblings(i)[k]].kind = nodes[i].kind})

\* C4: under every Part the first Chapter, and under every Chapter the first
\* Scene, when written without a number, has number 1.
C4_FirstChildIsOne ==
  \A p \in DOMAIN nodes : \A kinds \in {<<"Part", "Chapter">>, <<"Chapter", "Scene">>} :
    nodes[p].kind = kinds[1] =>
      LET ks == {k \in 1..Len(nodes[p].nodes) : nodes[nodes[p].nodes[k]].kind = kinds[2]}
      IN ks # {} =>
           LET first == nodes[p].nodes[CHOOSE k \in ks : \A m \in ks : k <= m]
           IN ~Explicit(first) => nodes[first].number = 1

\* The position a scan from p stops at when a line stops it only if its whole
\* keyword is in the stop set.
RECURSIVE WholeTokenStop(_, _, _)
WholeTokenStop(strm, p, tok) ==
  IF p >= Len(strm) \/ get_instruction(strm[p + 1].content) \in StopTokens(tok)
  THEN p ELSE WholeTokenStop(strm, p + 1, tok)

TokOf(kind) == CHOOSE tok \in StructuralTokens : KindOf(tok) = kind

\* C5: when the parse is over, the lines dispatched with a structural node as
\* holder are those after its instruction line up to the first line whose
\* keyword is in the kind's stop set (or the end of the stream).
C5_WindowIsUpToStopKeyword ==
  status = "done" =>
    \A i \in DOMAIN nodes :
      nodes[i].kind \in StructuralKinds \ {"Document"} =>
        {dispatched[k].pos : k \in {m \in 1..Len(dispatched) :
                                      dispatched[m].holder = i}}
        = (nodes[i].pos + 1) ..
          (WholeTokenStop(gens[nodes[i].strm], nodes[i].pos + 1,
                          TokOf(nodes[i].kind)) - 1)

Above(kind) ==
  CASE kind = "Act" -> {"Act", "Part", "Chapter", "Scene", "Section"}
    [] kind = "Part" -> {"Part", "Chapter", "Scene", "Section"}
    [] kind = "Chapter" -> {"Chapter", "Scene", "Section"}

\* C6 as claimed: in the tree returned, no Act has a structural ancestor but
\* the Document, no Part a Part, Chapter, Scene or Section ancestor, no Chapter
\* a Chapter, Scene or Section ancestor.
C6_HierarchyAnywhere ==
  status = "done" =>
    \A i \in DOMAIN nodes :
      nodes[i].kind \in {"Act", "Part", "Chapter"} =>
        \A a \in Ancestors(i) : nodes[a].kind \notin Above(nodes[i].kind)

\* C6 amended: the same, for the ancestors built from the node's own stream
\* (an @include splices the nodes of another stream under the holder of the
\* @include line, whatever kind that holder is).
C6_HierarchyInStream ==
  status = "done" =>
    \A i \in DOMAIN nodes :
      nodes[i].kind \in {"Act", "Part", "Chapter"} =>
        \A a \in Ancestors(i) :
          nodes[a].strm = nodes[i].strm => nodes[a].kind \notin Above(nodes[i].kind)

\* C6 witness: the tree returned holds a Chapter in a Part, and a Part of the
\* same stream that ended the scan of that Chapter and of its Part.
C6_Witness ==
  /\ status = "done"
  /\ \E c, q \in DOMAIN nodes :
       /\ nodes[c].kind = "Chapter" /\ nodes[q].kind = "Part"
       /\ nodes[c].parent # 0 /\ nodes[nodes[c].parent].kind = "Part"
       /\ nodes[q].strm = nodes[c].strm /\ nodes[q].pos > nodes[c].pos
       /\ nodes[q].parent = result

\* C7: no input without @status lines and whose @include paths all match a
\* file makes the parse raise.
C7_NeverRaises == status \in {"idle", "run", "done"}

\* C8: after truncate, get(i) for an index i of the underlying sequence at or
\* above every position truncated so far returns the i-th record.
C8_GetAfterTruncate ==
  ( /\ last.op = "get" /\ truncs # {} /\ last.arg < ilen
    /\ \A t \in truncs : last.arg >= t )
  => (last.exc = "" /\ last.rec = last.arg)

\* C9: get(i) fails for every i below a position truncate was called with,
\* whatever was called since.
C9_EvictedStaysEvicted ==
  (last.op = "get" /\ \E t \in truncs : last.arg < t) => last.exc # ""

\* C10: valid_index(i) is true exactly when the get(i) that follows it returns
\* a record.
C10_ValidIffGet ==
  \A i \in Indices :
    LET v == ValidIndex(ibuf, i, ilen)
    IN v.ret <=> (Get(v.buf, i, ilen).exc = "")

\* C11: when an included parse returns, the nodes it produced at top level
\* are added, in stream order and with no Document around them, after the
\* children the holder of the @include line already has; each keeps the file
\* and the line number of its own line and has the holder as parent; the
\* including call resumes at the line after the @include line.
C11_IncludeSplices ==
  [][ (LoopExit /\ F.ret = "include") =>
        LET h == Caller.holder
            inc == nodes[F.holder].nodes
        IN /\ nodes'[h].nodes = nodes[h].nodes \o inc
           /\ \A j \in 1..Len(inc) :
                LET c == inc[j]
                    r == gens[nodes[c].strm][nodes[c].pos + 1]
                IN /\ nodes'[c].parent = h
                   /\ nodes'[c].kind # "Document"
                   /\ nodes'[c].source = r.source
                   /\ nodes'[c].lineno = r.lineno
                   /\ nodes'[c].nodes = nodes[c].nodes
                   /\ \A k \in 1..(j - 1) :
                        nodes[inc[k]].strm = nodes[c].strm
                          => nodes[inc[k]].pos < nodes[c].pos
           /\ Len(stack') = Len(stack) - 1
           /\ stack'[Len(stack')].pos = Caller.pos + 1
           /\ stack'[Len(stack')].holder = h ]_vars

\* C11 witness: the parse is over and a Chapter holds, in this order, a node
\* of line 1 of file 2 and a node of line 1 of file 3, both spliced in by the
\* @include line of file 1 that names the two files.
C11_Witness ==
  /\ status = "done"
  /\ \E h \in DOMAIN nodes :
       /\ nodes[h].kind = "Chapter" /\ nodes[h].source = 1
       /\ Len(nodes[h].nodes) = 2
       /\ nodes[nodes[h].nodes[1]].source = 2 /\ nodes[nodes[h].nodes[1]].lineno = 1
       /\ nodes[nodes[h].nodes[2]].source = 3 /\ nodes[nodes[h].nodes[2]].lineno = 1
       /\ nodes[nodes[h].nodes[1]].parent = h /\ nodes[nodes[h].nodes[2]].parent = h

\* The line of the k-th dispatch.
DispatchedLine(k) == gens[dispatched[k].lines][dispatched[k].pos + 1]

IsIncludeRec(k) == DispatchedLine(k).content.kw = TokINCLUDE

\* The stream the @include line of the k-th dispatch created.
StreamOf(k) == 1 + Cardinality({m \in 1..k : IsIncludeRec(m)})

\* The session active in stream strm just before the k-th dispatch: that of
\* the last @session line of the stream dispatched before, unless an
\* @endsession line or an end marker of the stream was dispatched since.
ActiveAt(strm, k) ==
  LET marks == {m \in 1..(k - 1) :
                  /\ dispatched[m].lines = strm
                  /\ DispatchedLine(m).content.kw \in {TokSESSION, TokEND_SESSION, TokEOF}}
  IN IF marks = {} THEN 0
     ELSE LET m == CHOOSE x \in marks : \A y \in marks : y <= x
              ids == {i \in DOMAIN sessions :
                        sessions[i].strm = strm /\ sessions[i].pos = dispatched[m].pos}
          IN IF DispatchedLine(m).content.kw # TokSESSION \/ ids = {} THEN 0
             ELSE CHOOSE i \in ids : \A j \in ids : j <= i

\* C12: in the tree returned, when a session is active at an @include line
\* and the included stream has no @session line of its own, every node made
\* from a line of the included stream, the spliced nodes and their
\* descendants, carries that session.
C12_IncludedAdoptSession ==
  status = "done" =>
    \A k \in 1..Len(dispatched) :
      IsIncludeRec(k) =>
        LET a == ActiveAt(dispatched[k].lines, k)
            s2 == StreamOf(k)
        IN (a # 0 /\ \A i \in DOMAIN sessions : sessions[i].strm # s2)
           => \A n \in DOMAIN nodes : nodes[n].strm = s2 => nodes[n].session = a

\* Every node made from a line of the stream of an Act, Part or Chapter that
\* lies after its instruction line and before the first line whose keyword
\* is in its stop set, in whatever file of the stream, is its descendant.
SpansUntilStop ==
  \A i \in DOMAIN nodes :
    nodes[i].kind \in {"Act", "Part", "Chapter"} =>
      \A n \in DOMAIN nodes :
        ( /\ nodes[n].strm = nodes[i].strm
          /\ nodes[n].pos > nodes[i].pos
          /\ nodes[n].pos < WholeTokenStop(gens[nodes[i].strm], nodes[i].pos + 1,
                                           TokOf(nodes[i].kind)) )
        => i \in Ancestors(n)

\* No Scene or Section has a descendant made from a line of a later file of
\* its stream.
EndsWithItsFile ==
  \A i \in DOMAIN nodes :
    nodes[i].kind \in {"Scene", "Section"} =>
      \A n \in DOMAIN nodes :
        (i \in Ancestors(n) /\ nodes[n].strm = nodes[i].strm)
        => nodes[n].source = nodes[i].source

\* C13: in the tree returned for a stream of several files, an Act, Part or
\* Chapter has the nodes of the following files as descendants up to the
\* first line in its stop set, and a Scene or Section has no descendant from
\* a later file of the stream.
C13_SpanningAndFileBound ==
  status = "done" => (SpansUntilStop /\ EndsWithItsFile)

\* C14: dispatching an Act, Part, Chapter or Scene line with an explicit
\* number n makes n the number of the new node and the value recorded for the
\* key; exactly one warning is added when a value v was recorded for the key
\* and n < v, n = v or n > v + 1, and none otherwise; the node is appended to
\* the holder either way.
C14_ExplicitNumberRecorded ==
  [][ ( /\ Dispatching /\ is_instruction(Line.content, TokINSTRUCTION)
        /\ Instruction \in StructuralTokens \ {TokSECTION}
        /\ Line.content.num # None ) =>
        LET key == sequence_key(nodes, F.holder, Instruction)
            n == Line.content.num
            id == Len(nodes) + 1
            anomaly == /\ key \in DOMAIN sequences
                       /\ \/ n < sequences[key]
                          \/ n = sequences[key]
                          \/ n > sequences[key] + 1
        IN /\ Len(nodes') = id
           /\ nodes'[id].number = n
           /\ nodes'[id].parent = F.holder
           /\ nodes'[F.holder].nodes = Append(nodes[F.holder].nodes, id)
           /\ key \in DOMAIN sequences' /\ sequences'[key] = n
           /\ IF anomaly
              THEN /\ Len(warnings') = Len(warnings) + 1
                   /\ warnings'[Len(warnings')].number = n
              ELSE warnings' = warnings ]_vars

\* C14 witness: the parse is over, a gap and a smaller number were each
\* warned of, and a node carries the explicit number warned of.
C14_Witness ==
  /\ status = "done"
  /\ \E i, j \in DOMAIN warnings :
       warnings[i].warn = "gap" /\ warnings[j].warn = "less"
  /\ \E c \in DOMAIN nodes : nodes[c].kind = "Chapter" /\ nodes[c].number = 3
  /\ \E c \in DOMAIN nodes : nodes[c].kind = "Chapter" /\ nodes[c].number = 2

\* A line that meets a fatal condition: a @status value that is no status, an
\* @include path that matches no file.
FatalLine(l) ==
  \/ l.content.kw = TokSTATUS /\ l.content.title \notin Statuses
  \/ l.content.kw = TokINCLUDE /\ list_path(l.content.inc) = <<>>

\* C15: a parse in which a line that meets a fatal condition was dispatched,
\* at any depth, never completes: no document is returned.
C15_FatalUnwinds ==
  (\E k \in 1..Len(dispatched) : FatalLine(DispatchedLine(k)))
  => (status # "done" /\ result = 0)

\* The lines of stream strm after position p that end with the close
\* delimiter.
ClosesAfter(strm, p) ==
  {q \in (p + 1)..(Len(gens[strm]) - 1) : endswith_block_end(gens[strm][q + 1].content)}

\* The k-th dispatch is that of a line that opens a comment block without
\* closing it.
IsOpenRec(k) ==
  /\ DispatchedLine(k).content.kw = TokCOMMENT_BLOCK_START
  /\ ~endswith_block_end(DispatchedLine(k).content)

CommentsAt(strm, p) ==
  {n \in DOMAIN nodes :
     nodes[n].kind = "Comment" /\ nodes[n].strm = strm /\ nodes[n].pos = p}

\* C16: once a line opening a comment block that no later line of the stream
\* closes has been dispatched, at top level or under a structural node, the
\* parse raises no error and exactly one Comment node stands for the block.
C16_UnclosedBlockTolerated ==
  \A k \in 1..Len(dispatched) :
    (IsOpenRec(k) /\ ClosesAfter(dispatched[k].lines, dispatched[k].pos) = {})
    => /\ status \in {"run", "done"}
       /\ Cardinality(CommentsAt(dispatched[k].lines, dispatched[k].pos)) = 1

\* C17: for a comment block opened at line p and closed at a later line c
\* (the first line after p ending with the close delimiter), exactly one
\* Comment node is made, for line p; no line of p+1..c is dispatched or has
\* a node of its own; and the next line dispatched is line c+1.
C17_BlockConsumedWhole ==
  \A k \in 1..Len(dispatched) :
    LET strm == dispatched[k].lines
        p == dispatched[k].pos
        cl == ClosesAfter(strm, p)
    IN (IsOpenRec(k) /\ cl # {}) =>
         LET c == CHOOSE q \in cl : \A r \in cl : q <= r
             later == {m \in (k + 1)..Len(dispatched) : dispatched[m].lines = strm}
         IN /\ status \in {"run", "done"}
            /\ Cardinality(CommentsAt(strm, p)) = 1
            /\ \A m \in 1..Len(dispatched) :
                 dispatched[m].lines = strm => dispatched[m].pos \notin (p + 1)..c
            /\ \A n \in DOMAIN nodes :
                 nodes[n].strm = strm => nodes[n].pos \notin (p + 1)..c
            /\ later # {} =>
                 dispatched[CHOOSE m \in later : \A r \in later : m <= r].pos = c + 1

\* C18 as claimed: the Nth unnumbered Section among the children of one
\* parent (none of them explicitly numbered) has number N.
C18_SectionAutoNumbered ==
  \A i \in DOMAIN nodes :
    ( /\ nodes[i].kind = "Section"
      /\ nodes[i].parent # 0
      /\ \A k \in 1..Len(Siblings(i)) :
            LET j == Siblings(i)[k] IN
            /\ nodes[j].strm = nodes[i].strm
            /\ nodes[j].kind = "Section" => ~Explicit(j) )
    => nodes[i].number =
         Cardinality({k \in 1..IndexIn(Siblings(i), i) :
                        nodes[Siblings(i)[k]].kind = "Section"})

\* C18 amended: a Section has the number written on its line, none (None)
\* when the line has no number, and no Section line ever records a value in
\* the sequence tracker.
C18_SectionKeepsWrittenNumber ==
  /\ \A i \in DOMAIN nodes :
       nodes[i].kind = "Section" =>
         nodes[i].number = gens[nodes[i].strm][nodes[i].pos + 1].content.num
  /\ \A key \in DOMAIN sequences : key.type # TokSECTION

\* C18 witness: the parse is over and one parent holds two Sections written
\* without a number, both with no number.
C18_Witness ==
  /\ status = "done"
  /\ \E i, j \in DOMAIN nodes :
       /\ i # j /\ nodes[i].kind = "Section" /\ nodes[j].kind = "Section"
       /\ nodes[i].parent = nodes[j].parent /\ nodes[i].parent # 0
       /\ ~Explicit(i) /\ ~Explicit(j)
       /\ nodes[i].number = None /\ nodes[j].number = None

\* The lines of a text, without their terminators: each terminator ends a
\* line, and characters after the last terminator form a last line.
RECURSIVE TextLines(_)
TextLines(text) ==
  IF text = <<>> THEN <<>>
  ELSE IF ~HasNewline(text) THEN <<text>>
  ELSE <<SubSeq(text, 1, FirstNewline(text) - 1)>>
       \o TextLines(SubSeq(text, FirstNewline(text) + 1, Len(text)))

\* The n + 1 records of a text of n lines: line k with number k, then the
\* end marker with number n + 1.
RecordsOf(source, text) ==
  [i \in 1..(Len(TextLines(text)) + 1) |->
     [source |-> source, lineno |-> i,
      content |-> IF i <= Len(TextLines(text)) THEN TextLines(text)[i]
                  ELSE Spell[TokEOF]]]

RECURSIVE RecordsOfAll(_)
RecordsOfAll(paths) ==
  IF paths = <<>> THEN <<>>
  ELSE RecordsOf(Head(paths), files[Head(paths)]) \o RecordsOfAll(Tail(paths))

\* C19: reading a string or a file of n lines yields the n + 1 records of
\* its text, and reading several files yields the records of each file in
\* discovery order, each file numbered from 1 under its own source and
\* ending with its own end marker.
C19_ReadersYieldLinesThenMarker ==
  /\ status = "read_str" => gens[1] = RecordsOf(0, files[1])
  /\ status = "read_file" => gens[1] = RecordsOf(root[1], files[root[1]])
  /\ status = "read_path" => gens[1] = RecordsOfAll(root)

\* The nodes made from the line of the k-th dispatch.
NodesOfLine(k) ==
  {i \in 1..Len(nodes) : /\ nodes[i].strm = dispatched[k].lines
                         /\ nodes[i].pos = dispatched[k].pos}

\* C20: a dispatched line whose keyword the parser does not know yields
\* exactly one UnmappedInstruction node with the keyword and the trailing
\* text, and a dispatched line of text exactly one Text node with the text;
\* the node is a child of the holder of the dispatching loop.
C20_OneNodePerLine ==
  \A k \in 1..Len(dispatched) :
    LET l == DispatchedLine(k).content IN
    (l.kw = "" \/ l.kw \notin KnownTokens) =>
      /\ Cardinality(NodesOfLine(k)) = 1
      /\ \A i \in NodesOfLine(k) :
           /\ nodes[i].kind = (IF l.kw = "" THEN "Text" ELSE "Unmapped")
           /\ nodes[i].instruction = l.kw
           /\ nodes[i].title = l.title
           /\ status = "run" => nodes[i].parent = dispatched[k].holder

\* The session stated for an argument: a date first token is the date; an
\* integer second token is the target; an integer first token is the target
\* when there is no other; what remains is the name, absent when empty (an
\* integer first token that is not the target is left out of the name).
StatedSession(arg) ==
  LET n == Len(arg)
      isdate == n >= 1 /\ TokenShape(arg[1]).date
      int1 == n >= 1 /\ TokenShape(arg[1]).numeric
      int2 == n >= 2 /\ TokenShape(arg[2]).numeric
      words == (IF n >= 1 /\ ~isdate /\ ~int1 THEN <<arg[1]>> ELSE <<>>)
               \o SubSeq(arg, IF int2 THEN 3 ELSE 2, n)
  IN [date |-> IF isdate THEN arg[1] ELSE "None",
      target |-> IF int2 THEN TokenShape(arg[2]).lead
                 ELSE IF int1 THEN TokenShape(arg[1]).lead ELSE None,
      name |-> IF words = <<>> THEN "None" ELSE JoinTokens(words)]

\* C21: the session built from an @session argument has the date, the
\* target and the name the positional rules state (a name of no characters
\* counting as no name).
C21_SessionArgumentPositional ==
  status = "session" =>
    LET got == sessions[1]
        want == StatedSession(files[1])
    IN /\ got.date = want.date
       /\ got.target = want.target
       /\ got.name = want.name \/ (got.name = "" /\ want.name = "None")

\* The Text nodes below node i, at any depth.
TextsBelow(i) == {j \in DOMAIN nodes : nodes[j].kind = "Text" /\ i \in Ancestors(j)}

\* The words, or else the characters, of the Text nodes of the set js.
RECURSIVE TotalOf(_, _)
TotalOf(js, words) ==
  IF js = {} THEN 0
  ELSE LET j == CHOOSE x \in js : TRUE IN
       (IF words THEN Len(split_words(nodes[j].title)) ELSE Len(nodes[j].title))
       + TotalOf(js \ {j}, words)

\* C22: wordcount() and charcount() of the Document and of a structural node
\* are the totals of the words and of the characters of the Text nodes below
\* it at any depth; no node of another kind adds to them.
C22_CountsSumTextDescendants ==
  /\ last.op = "wordcount" => last.rec = TotalOf(TextsBelow(last.arg), TRUE)
  /\ last.op = "charcount" => last.rec = TotalOf(TextsBelow(last.arg), FALSE)

\* A count taken on a node that has a Text two levels below it and a note to
\* self with words of its own below it.
C22_Witness ==
  /\ last.op = "wordcount" /\ last.rec = 2
  /\ \E j \in TextsBelow(last.arg) : nodes[j].parent # last.arg
  /\ \E j \in DOMAIN nodes : /\ nodes[j].kind = "Todo" /\ nodes[j].title = "a b"
                              /\ last.arg \in Ancestors(j)

\* The nodes of the tree under node i, i included.
RECURSIVE TreeNodes(_)
TreeNodes(i) ==
  {i} \cup UNION {TreeNodes(nodes[i].nodes[k]) : k \in 1..Len(nodes[i].nodes)}

\* C23: in the Document returned, every node but the root has its parent in
\* the tree and occurs exactly once in that parent's children and in no
\* other node's children, and its parent links lead to the root.
C23_ReturnedTreeWellFormed ==
  status = "done" =>
    \A n \in TreeNodes(result) \ {result} :
      LET p == nodes[n].parent IN
      /\ p \in TreeNodes(result)
      /\ Cardinality({k \in 1..Len(nodes[p].nodes) : nodes[p].nodes[k] = n}) = 1
      /\ \A q \in TreeNodes(result) \ {p} :
           \A k \in 1..Len(nodes[q].nodes) : nodes[q].nodes[k] # n
      /\ result \in Ancestors(n)

\* A returned Document holding a Chapter of file 1 with a child that came
\* from an included file, and a node of its own beside the Chapter.
C23_Witness ==
  /\ status = "done"
  /\ Len(nodes[result].nodes) >= 2
  /\ \E n \in TreeNodes(result) :
       /\ nodes[n].source = 3
       /\ nodes[n].parent # result
       /\ nodes[nodes[n].parent].kind = "Chapter"

\* C24: when a structural sub-parser returns the position p its scan stopped
\* at, the offset of the buffer is at least p - 1 and the buffer keeps no
\* record of an index below p - 1.
C24_EvictedBelowResume ==
  [][(LoopExit /\ F.ret = "struct" /\ stack' # stack) =>
       LET b == bufs'[F.lines] IN
       /\ b.offset >= F.resume - 1
       /\ \A k \in 1..Len(b.buffer) : b.buffer[k] >= F.resume - 1]_vars

\* The top-level loop is back at a position of 2 or more after a dispatch
\* made inside a structural node, with the records before the last consumed
\* line evicted.
C24_Witness ==
  /\ status = "run" /\ Len(stack) = 1 /\ stack[1].pos >= 2
  /\ dispatched # <<>> /\ dispatched[Len(dispatched)].holder # 1
  /\ bufs[1].offset = stack[1].pos - 1
  /\ bufs[1].buffer # <<>> /\ bufs[1].buffer[1] = stack[1].pos - 1

\* C25: is_structural_leaf_node() is True exactly of a structural node that
\* has no structural node below it, whatever other nodes it holds.
C25_LeafIffNoStructuralBelow ==
  last.op = "is_structural_leaf_node" =>
    last.rec = (/\ nodes[last.arg].kind \in StructuralKinds
                /\ \A j \in DOMAIN nodes :
                     last.arg \in Ancestors(j) => nodes[j].kind \notin StructuralKinds)

\* C26: whenever the dispatch loop is about to get the line at its cursor,
\* the cursor is at or after the offset the buffer was last truncated to.
C26_CursorNotBelowOffset ==
  Running /\ Cont => F.pos >= bufs[F.lines].offset

\* C27: a dispatch loop bounded to [start, end) never has its cursor beyond
\* end, and no node below its holder comes from a line at or after end.
C27_BoundedLoopStaysInBounds ==
  \A f \in 1..Len(stack) :
    stack[f].end # None =>
      /\ stack[f].pos <= stack[f].end
      /\ \A j \in DOMAIN nodes :
           (stack[f].holder \in Ancestors(j) /\ nodes[j].strm = stack[f].lines)
             => nodes[j].pos < stack[f].end

\* C28: in the Document returned, no two nodes come from the same line of
\* the stream.
C28_OneNodePerLineInTree ==
  status = "done" =>
    \A i, j \in TreeNodes(result) \ {result} :
      (nodes[i].strm = nodes[j].strm /\ nodes[i].pos = nodes[j].pos) => i = j

\* C29: every parse comes to its end and returns a Document, whatever files
\* the @include lines name.
C29_ParseTerminates == <>(status = "done")

\* The numbers of the structural nodes of the trees under the nodes ids, in
\* depth-first order.
RECURSIVE NumbersOf(_)
NumbersOf(ids) ==
  IF ids = <<>> THEN <<>>
  ELSE (IF nodes[Head(ids)].kind \in StructuralKinds \ {"Document"}
        THEN <<nodes[Head(ids)].number>> ELSE <<>>)
       \o NumbersOf(nodes[Head(ids)].nodes) \o NumbersOf(Tail(ids))

\* C30: the Document of a second parse of the same input through the same
\* Parser has the structural numbers of the Document of the first.
C30_SecondParseNumbersAlike ==
  (status = "done" /\ last.op = "parse_doc") =>
    NumbersOf(<<result>>) = NumbersOf(<<last.arg>>)

====
